---- MODULE Spec2Model ----
(***************************************************************************)
(* Model of turftopic/models/cluster.py: ClusteringTopicModel.             *)
(*                                                                         *)
(* One model object is constructed and fit_predict is called on it once.   *)
(* The external collaborators (encoder, vectorizer, dimensionality         *)
(* reducer, clusterer, sklearn's AgglomerativeClustering) are modelled by  *)
(* a nondeterministic choice over every output they can produce, or by an  *)
(* exception.  np.mean(..., axis=0) works on each coordinate separately,   *)
(* so one coordinate of the embeddings is modelled: a document embedding   *)
(* is a small integer and a centroid an exact rational                     *)
(* <<numerator, denominator>> in lowest terms.  Matrices whose entries no  *)
(* property depends on (doc_term_matrix, vocab_embeddings, components_)    *)
(* are represented by their shape <<rows, columns>>.  An attribute that    *)
(* has not been assigned is <<>>.                                          *)
(***************************************************************************)
EXTENDS Integers, Sequences, FiniteSets, TLC

\* ---- bounds ----
NDocs == 3          \* number of documents in the corpus
MaxLabel == 1       \* the clusterer answers labels in -1..MaxLabel
MaxCoord == 1       \* the embedding coordinate is in 0..MaxCoord
VocabSize == 2      \* number of terms the vectorizer extracts
MaxReduce == 2      \* n_reduce_to is None or in 0..MaxReduce

Docs == 1..NDocs
Labels == -1..MaxLabel
Embeddings == [Docs -> 0..MaxCoord]
None == <<>>
NoMapping == [l \in {} |-> 0]

VARIABLES
    pc,                 \* position of the program
    error,              \* the exception that ended the run, "" if none
    trace,              \* the pipeline stages executed so far, in order
    encoder,            \* kind of the constructor's first argument
    clustering,         \* kind of the constructor's clustering argument
    feature_importance, \* "ctfidf" or "centroid"
    n_reduce_to,        \* None or <<m>>
    precomputed,        \* fit_predict was given embeddings
    embeddings,         \* local: the raw document embeddings
    cluster_labels,     \* local: the current per-document labels
    predicted,          \* history: the labels the clusterer answered
    passes,             \* completed calls of _estimate_parameters
    agglo_calls,        \* calls of AgglomerativeClustering.fit_predict
    doc_term_matrix, classes_, topic_sizes_, topic_vectors_,
    vocab_embeddings, components_, labels_, mapping_

locals == <<precomputed, embeddings, cluster_labels, predicted, passes,
           agglo_calls>>
config == <<encoder, clustering, feature_importance, n_reduce_to>>
estimated == <<classes_, topic_sizes_, topic_vectors_, vocab_embeddings,
               components_, labels_>>
fitted == <<doc_term_matrix, classes_, topic_sizes_, topic_vectors_,
            vocab_embeddings, components_, labels_, mapping_>>
vars == <<pc, error, trace, config, locals, fitted>>

\* ---- numpy helpers ----
RECURSIVE GCD(_, _)
GCD(a, b) == IF b = 0 THEN a ELSE GCD(b, a % b)

\* an exact quotient a / b, b > 0, in lowest terms
Frac(a, b) == LET g == GCD(a, b) IN <<a \div g, b \div g>>

Min(S) == CHOOSE x \in S : \A y \in S : x <= y

RECURSIVE SortedSeq(_)
SortedSeq(S) == IF S = {} THEN <<>>
                ELSE <<Min(S)>> \o SortedSeq(S \ {Min(S)})

\* np.unique: the distinct values in ascending order
unique(arr) == SortedSeq({arr[i] : i \in DOMAIN arr})

RECURSIVE SumOver(_, _)
SumOver(S, emb) ==
    IF S = {} THEN 0
    ELSE LET d == Min(S) IN emb[d] + SumOver(S \ {d}, emb)

\* np.sum in place of np.mean
mean_as_sum(S, emb) == Frac(SumOver(S, emb), 1)

\* np.mean(embeddings[mask], axis=0) over the rows in S
mean(S, emb) == Frac(SumOver(S, emb), Cardinality(S))

Members(labs, label) == {d \in DOMAIN labs : labs[d] = label}

calculate_topic_vectors(labs, emb) ==
    LET unique_labels == unique(labs)
    IN [i \in 1..Len(unique_labels) |->
            mean(Members(labs, unique_labels[i]), emb)]

\* the outlier label is not counted
topic_sizes_skip_outlier(labs, classes) ==
    [i \in 1..Len(classes) |->
        IF classes[i] = -1 THEN 0
        ELSE Cardinality(Members(labs, classes[i]))]

topic_sizes(labs, classes) ==
    [i \in 1..Len(classes) |-> Cardinality(Members(labs, classes[i]))]

\* sklearn.preprocessing.label_binarize(y, classes=classes): one indicator
\* column per class, except that a target with two classes gives the single
\* column of the second class and a target with one class a single zero column
label_binarize(y, classes) ==
    LET k == Len(classes) IN
    IF k = 1 THEN [d \in DOMAIN y |-> <<0>>]
    ELSE IF k = 2
         THEN [d \in DOMAIN y |-> <<IF y[d] = classes[2] THEN 1 ELSE 0>>]
         ELSE [d \in DOMAIN y |->
                  [i \in 1..k |-> IF y[d] = classes[i] THEN 1 ELSE 0]]

\* turftopic.feature_importance.soft_ctf_idf: doc_topic_matrix.T @
\* doc_term_matrix, rescaled: one row per column of the indicator matrix
soft_ctf_idf(document_topic_matrix, dtm) ==
    <<Len(document_topic_matrix[1]), dtm[2]>>

\* turftopic.feature_importance.cluster_centroid_distance: one row per
\* centroid, one column per vocabulary embedding
cluster_centroid_distance(vectors, vocab) == <<Len(vectors), vocab[1]>>

importance(fi, labs, classes, vectors, vocab, dtm) ==
    IF fi = "ctfidf"
    THEN soft_ctf_idf(label_binarize(labs, classes), dtm)
    ELSE cluster_centroid_distance(vectors, vocab)

\* ---- the merge ----
NonOutlier(classes) == SelectSeq(classes, LAMBDA l : l # -1)
HasOutlier(classes) == \E i \in DOMAIN classes : classes[i] = -1
Identity(classes) ==
    [l \in {classes[i] : i \in DOMAIN classes} |-> l]

\* AgglomerativeClustering(n_clusters).fit_predict on n_samples vectors:
\* every assignment of the samples onto exactly the clusters 0..n_clusters-1;
\* none (an exception) for fewer than two samples or an impossible n_clusters
AgglomerativeClustering(n_clusters, n_samples) ==
    IF n_samples < 2 \/ n_clusters < 1 \/ n_clusters > n_samples THEN {}
    ELSE {f \in [1..n_samples -> 0..(n_clusters - 1)] :
             \A c \in 0..(n_clusters - 1) : \E i \in 1..n_samples : f[i] = c}

\* the guard of line 134
merge_is_noop(n_topics, m) == n_topics <= m

\* n_clusters is one more than the target
merge_agglomerative_one_more(m, classes, comps) ==
    LET n_topics == comps[1]
        old_labels == NonOutlier(classes)
    IN IF merge_is_noop(n_topics, m) THEN {Identity(classes)}
       ELSE IF old_labels = <<>> THEN {}
       ELSE {[l \in {classes[i] : i \in DOMAIN classes} |->
                 IF l = -1 THEN -1
                 ELSE new_labels[CHOOSE i \in DOMAIN old_labels :
                                     old_labels[i] = l]] :
             new_labels \in AgglomerativeClustering(m + 1, Len(old_labels))}

\* the outlier centroid is clustered with the others
merge_agglomerative_with_outlier(m, classes, comps) ==
    LET n_topics == comps[1]
    IN IF merge_is_noop(n_topics, m) THEN {Identity(classes)}
       ELSE {[l \in {classes[i] : i \in DOMAIN classes} |->
                 new_labels[CHOOSE i \in DOMAIN classes : classes[i] = l]] :
             new_labels \in AgglomerativeClustering(m, Len(classes))}

\* the set of mappings _merge_agglomerative(m) can return; {} when it raises
merge_agglomerative(m, classes, comps) ==
    LET n_topics == comps[1]
        old_labels == NonOutlier(classes)
    IN IF merge_is_noop(n_topics, m) THEN {Identity(classes)}
       ELSE IF old_labels = <<>> THEN {}     \* np.stack of an empty list
       ELSE {[l \in {classes[i] : i \in DOMAIN classes} |->
                 IF l = -1 THEN -1
                 ELSE new_labels[CHOOSE i \in DOMAIN old_labels :
                                     old_labels[i] = l]] :
             new_labels \in AgglomerativeClustering(m, Len(old_labels))}

Raise(stage, exc) ==
    /\ pc' = "Raised"
    /\ error' = exc
    /\ trace' = Append(trace, stage)

\* ---- __init__ ----
\* no check of the first argument
is_integer_unchecked(enc) == FALSE

\* isinstance(encoder, int), line 108
is_integer(enc) == enc = "int"

Construct ==
    /\ pc = "New"
    /\ \E enc \in {"int", "encoder"}, clu \in {"int", "clusterer"},
          fi \in {"ctfidf", "centroid"},
          nr \in {None} \cup {<<m>> : m \in 0..MaxReduce} :
          /\ encoder' = enc
          /\ IF is_integer(enc)
             THEN /\ pc' = "Raised"
                  /\ error' = "TypeError"
                  /\ UNCHANGED <<clustering, feature_importance, n_reduce_to>>
             ELSE /\ pc' = "Idle"
                  /\ clustering' = clu
                  /\ feature_importance' = fi
                  /\ n_reduce_to' = nr
                  /\ UNCHANGED error
    /\ UNCHANGED <<trace, locals, fitted>>

\* ---- fit_predict ----
FitPredict ==
    /\ pc = "Idle"
    /\ \/ /\ precomputed' = FALSE
          /\ pc' = "Encoding"
          /\ UNCHANGED embeddings
       \/ /\ precomputed' = TRUE
          /\ \E e \in Embeddings : embeddings' = e
          /\ pc' = "TermExtraction"
    /\ UNCHANGED <<error, trace, config, cluster_labels, predicted, passes,
                   agglo_calls, fitted>>

Encode ==
    /\ pc = "Encoding"
    /\ \/ /\ \E e \in Embeddings : embeddings' = e
          /\ pc' = "TermExtraction"
          /\ trace' = Append(trace, "Encoding")
          /\ UNCHANGED error
       \/ /\ Raise("Encoding", "EncoderError")
          /\ UNCHANGED embeddings
    /\ UNCHANGED <<config, precomputed, cluster_labels, predicted, passes,
                   agglo_calls, fitted>>

ExtractTerms ==
    /\ pc = "TermExtraction"
    /\ \/ /\ doc_term_matrix' = <<NDocs, VocabSize>>
          /\ pc' = "DimensionalityReduction"
          /\ trace' = Append(trace, "TermExtraction")
          /\ UNCHANGED error
       \/ /\ Raise("TermExtraction", "VectorizerError")
          /\ UNCHANGED doc_term_matrix
    /\ UNCHANGED <<config, locals, estimated, mapping_>>

ReduceDimensionality ==
    /\ pc = "DimensionalityReduction"
    /\ \/ /\ pc' = "Clustering"
          /\ trace' = Append(trace, "DimensionalityReduction")
          /\ UNCHANGED error
       \/ Raise("DimensionalityReduction", "ReducerError")
    /\ UNCHANGED <<config, locals, fitted>>

Cluster ==
    /\ pc = "Clustering"
    /\ \/ /\ clustering = "clusterer"
          /\ \E labs \in [Docs -> Labels] :
                /\ cluster_labels' = labs
                /\ predicted' = labs
          /\ pc' = "ParameterEstimation"
          /\ trace' = Append(trace, "Clustering")
          /\ UNCHANGED error
       \/ /\ clustering = "clusterer"
          /\ Raise("Clustering", "ClustererError")
          /\ UNCHANGED <<cluster_labels, predicted>>
       \/ /\ clustering = "int"
          /\ Raise("Clustering", "AttributeError")
          /\ UNCHANGED <<cluster_labels, predicted>>
    /\ UNCHANGED <<config, precomputed, embeddings, passes, agglo_calls,
                   fitted>>

\* "if self.n_reduce_to:" in place of "is not None"
AfterEstimation_truthy(done, nr) ==
    IF done = 0 /\ nr # None /\ nr # <<0>> THEN "Merging" ELSE "Fitted"

\* the stage that follows _estimate_parameters (lines 233 and 246)
AfterEstimation(done, nr) ==
    IF done = 0 /\ nr # None THEN "Merging" ELSE "Fitted"

\* ---- _estimate_parameters ----
EstimateParameters ==
    /\ pc = "ParameterEstimation"
    /\ classes_' = unique(cluster_labels)
    /\ topic_sizes_' = topic_sizes(cluster_labels, classes_')
    /\ topic_vectors_' = calculate_topic_vectors(cluster_labels, embeddings)
    /\ \/ /\ vocab_embeddings' = <<doc_term_matrix[2], 1>>
          /\ components_' = importance(feature_importance, cluster_labels,
                                       classes_', topic_vectors_',
                                       vocab_embeddings', doc_term_matrix)
          /\ labels_' = cluster_labels
          /\ passes' = passes + 1
          /\ pc' = AfterEstimation(passes, n_reduce_to)
          /\ trace' = Append(trace, "ParameterEstimation")
          /\ UNCHANGED error
       \/ /\ Raise("ParameterEstimation", "EncoderError")
          /\ UNCHANGED <<vocab_embeddings, components_, labels_, passes>>
    /\ UNCHANGED <<config, precomputed, embeddings, cluster_labels, predicted,
                   agglo_calls, doc_term_matrix, mapping_>>

\* ---- lines 234-238: the merge and the remapping of the labels ----
Merge ==
    /\ pc = "Merging"
    /\ LET m == n_reduce_to[1]
           outcomes == merge_agglomerative(m, classes_, components_)
       IN /\ agglo_calls' = IF merge_is_noop(components_[1], m)
                               \/ NonOutlier(classes_) = <<>>
                            THEN agglo_calls ELSE agglo_calls + 1
          /\ \/ /\ \E res \in outcomes :
                      /\ mapping_' = res
                      /\ cluster_labels' =
                            [d \in Docs |-> res[cluster_labels[d]]]
                /\ pc' = "ParameterEstimation"
                /\ trace' = Append(trace, "Merging")
                /\ UNCHANGED error
             \/ /\ outcomes = {}
                /\ Raise("Merging", "ValueError")
                /\ UNCHANGED <<mapping_, cluster_labels>>
    /\ UNCHANGED <<config, precomputed, embeddings, predicted, passes,
                   doc_term_matrix, estimated>>

Init ==
    /\ pc = "New"
    /\ error = ""
    /\ trace = <<>>
    /\ encoder = "encoder"
    /\ clustering = "clusterer"
    /\ feature_importance = "ctfidf"
    /\ n_reduce_to = None
    /\ precomputed = FALSE
    /\ embeddings = <<>>
    /\ cluster_labels = <<>>
    /\ predicted = <<>>
    /\ passes = 0
    /\ agglo_calls = 0
    /\ doc_term_matrix = <<>>
    /\ classes_ = <<>>
    /\ topic_sizes_ = <<>>
    /\ topic_vectors_ = <<>>
    /\ vocab_embeddings = <<>>
    /\ components_ = <<>>
    /\ labels_ = <<>>
    /\ mapping_ = NoMapping

Next ==
    \/ Construct
    \/ FitPredict
    \/ Encode
    \/ ExtractTerms
    \/ ReduceDimensionality
    \/ Cluster
    \/ EstimateParameters
    \/ Merge

Spec == Init /\ [][Next]_vars

\* ---- properties ----
LabelSet(labs) == {labs[d] : d \in DOMAIN labs}
Topics(labs) == LabelSet(labs) \ {-1}
Ascending(seq) == \A i, j \in DOMAIN seq : i < j => seq[i] < seq[j]
Unset == <<<<>>, <<>>, <<>>, <<>>, <<>>, <<>>, <<>>, NoMapping>>

\* _merge_agglomerative has just returned or raised
MergeReturned == pc = "ParameterEstimation" /\ passes = 1
MergeRaised == pc = "Raised" /\ trace # <<>> /\ trace[Len(trace)] = "Merging"

\* C1: whenever the merge target (a count of at least one topic) is at least
\* the number of non-outlier topics, _merge_agglomerative does not invoke
\* agglomerative clustering and returns the identity mapping on classes_.
C1_NoOpWhenTargetReached ==
    ((MergeReturned \/ MergeRaised)
        /\ n_reduce_to[1] >= 1
        /\ n_reduce_to[1] >= Len(NonOutlier(classes_)))
    => /\ agglo_calls = 0
       /\ pc # "Raised"
       /\ mapping_ = Identity(classes_)

\* C2: once agglomerative clustering has run and succeeded, the remapped
\* per-document labels hold exactly n_reduce_to distinct non-outlier labels,
\* and -1 is among them whenever it was among the labels before the merge.
C2_MergeReachesTarget ==
    (agglo_calls = 1 /\ mapping_ # NoMapping)
    => /\ Cardinality(Topics(cluster_labels)) = n_reduce_to[1]
       /\ (-1 \in DOMAIN mapping_ => -1 \in LabelSet(cluster_labels))
       /\ (pc = "Fitted" => labels_ = cluster_labels)

C2_Witness ==
    /\ pc = "Fitted"
    /\ agglo_calls = 1
    /\ -1 \in DOMAIN mapping_
    /\ \E a, b \in DOMAIN mapping_ :
          a # b /\ a # -1 /\ b # -1 /\ mapping_[a] = mapping_[b]

\* C3: a fit_predict that completed with n_reduce_to configured leaves at
\* most n_reduce_to distinct non-outlier labels in labels_ and classes_.
C3_AtMostTarget ==
    (pc = "Fitted" /\ n_reduce_to # None)
    => /\ Cardinality(Topics(labels_)) <= n_reduce_to[1]
       /\ Len(NonOutlier(classes_)) <= n_reduce_to[1]

\* C4: after every estimation pass topic_vectors_, topic_sizes_ and
\* components_ have one row per entry of classes_, row i describing the
\* topic classes_[i], and components_ has one column per vocabulary term.
C4_RowsAligned ==
    pc \in {"Merging", "Fitted"}
    => /\ classes_ = unique(labels_)
       /\ Len(topic_vectors_) = Len(classes_)
       /\ Len(topic_sizes_) = Len(classes_)
       /\ components_ = <<Len(classes_), doc_term_matrix[2]>>
       /\ \A i \in DOMAIN classes_ :
             /\ topic_sizes_[i] = Cardinality(Members(labels_, classes_[i]))
             /\ topic_vectors_[i][1] * topic_sizes_[i]
                  = topic_vectors_[i][2]
                      * SumOver(Members(labels_, classes_[i]), embeddings)

\* C5: when a collaborator raises during fit_predict, every fitted field
\* still has the value it had before the call.
C5_NoPartialState ==
    (pc = "Raised" /\ error # "TypeError") => fitted = Unset

\* C6: the mapping returned by _merge_agglomerative maps -1 to -1 whenever
\* -1 is in classes_, and every document the clusterer labelled -1 is
\* labelled -1 after the remapping and in the final labels_.
C6_OutlierKept ==
    mapping_ # NoMapping
    => /\ (-1 \in DOMAIN mapping_ => mapping_[-1] = -1)
       /\ DOMAIN mapping_ = LabelSet(predicted)
       /\ \A d \in Docs :
             predicted[d] = -1
             => /\ cluster_labels[d] = -1
                /\ (pc = "Fitted" => labels_[d] = -1)

C6_Witness ==
    /\ pc = "Fitted"
    /\ agglo_calls = 1
    /\ \E d \in Docs : predicted[d] = -1 /\ labels_[d] = -1
    /\ \E d \in Docs : predicted[d] # -1 /\ labels_[d] # predicted[d]

\* the stages a run with these arguments goes through
ExpectedStages ==
    (IF precomputed THEN <<>> ELSE <<"Encoding">>)
    \o <<"TermExtraction", "DimensionalityReduction", "Clustering",
         "ParameterEstimation">>
    \o (IF n_reduce_to # None THEN <<"Merging", "ParameterEstimation">>
        ELSE <<>>)

IsPrefix(s, t) == Len(s) <= Len(t) /\ SubSeq(t, 1, Len(s)) = s

\* C7: the stages of a fit_predict run are executed in the fixed order,
\* Encoding exactly when no embeddings were supplied, Merging and the second
\* ParameterEstimation exactly when n_reduce_to is not None.
C7_StageOrder ==
    /\ pc \in {"New", "Idle"} => trace = <<>>
    /\ pc \in {"Encoding", "TermExtraction", "DimensionalityReduction",
               "Clustering", "ParameterEstimation", "Merging"}
       => IsPrefix(Append(trace, pc), ExpectedStages)
    /\ (pc = "Raised" /\ error # "TypeError")
       => IsPrefix(trace, ExpectedStages)
    /\ pc = "Fitted" => trace = ExpectedStages

C7_Witness ==
    /\ pc = "Fitted"
    /\ ~precomputed
    /\ n_reduce_to # None
    /\ Len(trace) = 7

C9_CentroidIsMean ==
    pc = "Fitted"
    => /\ Ascending(classes_)
       /\ LabelSet(classes_) = LabelSet(labels_)
       /\ Len(topic_vectors_) = Len(classes_)
       /\ \A d \in Docs :
             labels_[d] = IF n_reduce_to = None THEN predicted[d]
                          ELSE mapping_[predicted[d]]
       /\ \A i \in DOMAIN classes_ :
             LET S == {d \in Docs : labels_[d] = classes_[i]}
                 q == topic_vectors_[i]
             IN /\ q[2] > 0
                /\ q[1] * Cardinality(S) = q[2] * SumOver(S, embeddings)

C9_Witness ==
    /\ pc = "Fitted"
    /\ agglo_calls = 1
    /\ \E a, b \in DOMAIN mapping_ : a # b /\ mapping_[a] = mapping_[b]
    /\ \E i \in DOMAIN topic_vectors_ : topic_vectors_[i][2] > 1

RECURSIVE SeqSum(_)
SeqSum(seq) == IF seq = <<>> THEN 0 ELSE Head(seq) + SeqSum(Tail(seq))

\* C10: after every estimation pass the topic sizes add up to the number of
\* documents and topic_sizes_[i] counts the documents labelled classes_[i].
C10_SizesSum ==
    pc \in {"Merging", "Fitted"}
    => /\ SeqSum(topic_sizes_) = NDocs
       /\ Len(topic_sizes_) = Len(classes_)
       /\ \A i \in DOMAIN classes_ :
             topic_sizes_[i] = Cardinality({d \in Docs : labels_[d] = classes_[i]})

C10_Witness ==
    /\ pc = "Fitted"
    /\ classes_ = <<-1>>
    /\ topic_sizes_ = <<NDocs>>

====
